---- MODULE Spec2Model ----
(***************************************************************************)
(* Model of CorrectionStreamlitBtcOption.py: the Deribit weekly BTC option *)
(* dashboard.  The script lists the instruments, keeps those expiring in   *)
(* the next seven days, fetches one book summary per kept instrument,      *)
(* labels every row and renders a table and three charts.                  *)
(***************************************************************************)
EXTENDS Integers, Sequences, FiniteSets, TLC

VARIABLES
    pc,              \* position of the script
    current_time,    \* datetime.utcnow(), read once by the expiry filter
    btc_options,     \* result of get_all_btc_options()
    weekly_options,  \* result of filter_weekly_expiry_options()
    idx,             \* loop position of create_options_df (1-based)
    data,            \* rows appended by create_options_df
    options_df,      \* the dataframe with its 'Writer Type' column
    reqs,            \* HTTP requests issued, in order, each pending or done
    errors,          \* st.error calls, in order
    warnings,        \* st.warning calls, in order
    rendered         \* elements put on the page, in order

vars == <<pc, current_time, btc_options, weekly_options, idx, data,
          options_df, reqs, errors, warnings, rendered>>

----------------------------------------------------------------------------
(* Bounds of the model *)

\* longest instrument listing of a dashboard run
MaxListing == 3
\* longest input sequence handed to the expiry filter on its own
MaxOptions == 3

(* Program constants *)

\* timedelta(days=7)
WeekDays == 7
\* expiration_timestamp / 1000
MsPerSec == 1000
\* a datetime keeps microseconds; 1 ms = 1000 us
UsPerMs == 1000
\* seconds of a day, the carry of datetime's (day, second, microsecond)
SecPerDay == 86400

----------------------------------------------------------------------------
(* Optional values: Python's None and a present number *)

None == <<>>
Some(v) == <<v>>

\* pd.notnull(x)
notnull(x) == x # None

----------------------------------------------------------------------------
(* datetime: (day, second of day, microsecond), ordered lexicographically *)

\* datetime.utcfromtimestamp(ms / 1000): the float keeps the milliseconds
\* exactly and the datetime holds them as microseconds
utcfromtimestamp(ms) ==
    [day |-> (ms \div MsPerSec) \div SecPerDay,
     sec |-> (ms \div MsPerSec) % SecPerDay,
     us  |-> (ms % MsPerSec) * UsPerMs]

\* dt + timedelta(days=d)
PlusDays(dt, d) == [dt EXCEPT !.day = @ + d]

\* datetime.__le__
DtLe(a, b) ==
    \/ a.day < b.day
    \/ a.day = b.day /\ a.sec < b.sec
    \/ a.day = b.day /\ a.sec = b.sec /\ a.us <= b.us

\* datetime.__lt__
DtLt(a, b) == DtLe(a, b) /\ a # b

\* the window with both ends excluded: current_time < expiry_date < one_week_later
InWindowStrict(expiry_date, now) ==
    DtLt(now, expiry_date) /\ DtLt(expiry_date, PlusDays(now, WeekDays))

\* current_time <= expiry_date <= one_week_later
InWindow(expiry_date, now) ==
    DtLe(now, expiry_date) /\ DtLe(expiry_date, PlusDays(now, WeekDays))

\* the loop of filter_weekly_expiry_options over options[i..]
RECURSIVE FilterFrom(_, _, _, _)
FilterFrom(options, now, i, weekly) ==
    IF i > Len(options) THEN weekly
    ELSE FilterFrom(options, now, i + 1,
            IF InWindow(utcfromtimestamp(options[i].expiration_timestamp), now)
            THEN Append(weekly, options[i])
            ELSE weekly)

filter_weekly_expiry_options(options, now) == FilterFrom(options, now, 1, <<>>)

----------------------------------------------------------------------------
(* Row classifier *)

Labels == {"Call Writers (IV Falling)", "Call Buyers (IV Rising)",
           "Put Writers (IV Falling)", "Put Buyers (IV Rising)", "Neutral"}

\* x if pd.notnull(x) else 0
OrZero(x) == IF notnull(x) THEN x[1] ELSE 0

\* the classifier with the Buyers rows reading open_interest > 0
identify_writers_oi_positive(row) ==
    LET price_change == OrZero(row.price_change)
        iv_change == OrZero(row.iv_change)
        open_interest == OrZero(row.open_interest)
    IN  IF row.option_type = "Call"
        THEN IF price_change < 0 /\ iv_change < 0 /\ open_interest > 0
             THEN "Call Writers (IV Falling)"
             ELSE IF price_change > 0 /\ iv_change > 0 /\ open_interest > 0
                  THEN "Call Buyers (IV Rising)"
                  ELSE "Neutral"
        ELSE IF row.option_type = "Put"
        THEN IF price_change > 0 /\ iv_change < 0 /\ open_interest > 0
             THEN "Put Writers (IV Falling)"
             ELSE IF price_change < 0 /\ iv_change > 0 /\ open_interest > 0
                  THEN "Put Buyers (IV Rising)"
                  ELSE "Neutral"
        ELSE "Neutral"

\* the classifier with <= in place of < on the price change
identify_writers_price_le(row) ==
    LET price_change == OrZero(row.price_change)
        iv_change == OrZero(row.iv_change)
        open_interest == OrZero(row.open_interest)
    IN  IF row.option_type = "Call"
        THEN IF price_change <= 0 /\ iv_change < 0 /\ open_interest > 0
             THEN "Call Writers (IV Falling)"
             ELSE IF price_change > 0 /\ iv_change > 0 /\ open_interest < 0
                  THEN "Call Buyers (IV Rising)"
                  ELSE "Neutral"
        ELSE IF row.option_type = "Put"
        THEN IF price_change > 0 /\ iv_change < 0 /\ open_interest > 0
             THEN "Put Writers (IV Falling)"
             ELSE IF price_change <= 0 /\ iv_change > 0 /\ open_interest < 0
                  THEN "Put Buyers (IV Rising)"
                  ELSE "Neutral"
        ELSE "Neutral"

identify_writers_with_iv(row) ==
    LET price_change == OrZero(row.price_change)
        iv_change == OrZero(row.iv_change)
        open_interest == OrZero(row.open_interest)
    IN  IF row.option_type = "Call"
        THEN IF price_change < 0 /\ iv_change < 0 /\ open_interest > 0
             THEN "Call Writers (IV Falling)"
             ELSE IF price_change > 0 /\ iv_change > 0 /\ open_interest < 0
                  THEN "Call Buyers (IV Rising)"
                  ELSE "Neutral"
        ELSE IF row.option_type = "Put"
        THEN IF price_change > 0 /\ iv_change < 0 /\ open_interest > 0
             THEN "Put Writers (IV Falling)"
             ELSE IF price_change < 0 /\ iv_change > 0 /\ open_interest < 0
                  THEN "Put Buyers (IV Rising)"
                  ELSE "Neutral"
        ELSE "Neutral"

\* df['Writer Type'] = df.apply(identify_writers_with_iv, axis=1)
ApplyWriterType(rows) ==
    [i \in 1..Len(rows) |->
        [instrument    |-> rows[i].instrument,
         expiry        |-> rows[i].expiry,
         strike        |-> rows[i].strike,
         option_type   |-> rows[i].option_type,
         open_interest |-> rows[i].open_interest,
         iv_change     |-> rows[i].iv_change,
         price_change  |-> rows[i].price_change,
         writer_type   |-> identify_writers_with_iv(rows[i])]]

----------------------------------------------------------------------------
(* Inputs: the clock, the exchange's instruments and its responses *)

\* epoch milliseconds of midnight of day d
DayMs(d) == d * SecPerDay * MsPerSec

\* the clock readings of datetime.utcnow(): one on a millisecond and on
\* midnight, one half a millisecond before the next midnight
NowChoices ==
    {[day |-> 1, sec |-> 0, us |-> 0],
     [day |-> 1, sec |-> SecPerDay - 1, us |-> 999500]}

Instrument(name, type, strike, ms) ==
    [instrument_name |-> name, option_type |-> type, strike |-> strike,
     expiration_timestamp |-> ms]

\* the instruments the exchange lists in a dashboard run
Catalogue ==
    {Instrument("BTC-A-C", "call", 60000, DayMs(2)),
     Instrument("BTC-B-P", "put", 60000, DayMs(8)),
     Instrument("BTC-C-C", "call", 65000, DayMs(1)),
     Instrument("BTC-D-P", "put", 65000, DayMs(9))}

\* expirations around both ends of the window of every clock reading
ExpiryChoices ==
    {DayMs(1) - 1, DayMs(1), DayMs(1) + 1,
     DayMs(2) - 1, DayMs(2),
     DayMs(8) - 1, DayMs(8), DayMs(8) + 1,
     DayMs(9) - 1, DayMs(9)}

\* the instruments handed to the expiry filter on its own
FilterCatalogue ==
    {Instrument("BTC-X", "call", 60000, ms) : ms \in ExpiryChoices}

\* the sequences over S of length at most n
SeqsUpTo(S, n) == UNION {[1..k -> S] : k \in 0..n}

\* the sequences over S of length at most n that repeat no element
InjSeqsUpTo(S, n) ==
    {s \in SeqsUpTo(S, n) : \A i, j \in 1..Len(s) : i # j => s[i] # s[j]}

\* values of the fields of a book summary in a dashboard run
LastChoices == {Some(0 - 5), Some(5), None}
IvChoices == {Some(0 - 2), Some(3)}
OiChoices == {Some(0 - 1), Some(0), Some(100), None}

SummaryDicts ==
    [open_interest : OiChoices, iv : IvChoices, last : LastChoices]

\* what requests.get and response.json() can give: the transport raises,
\* the body is no JSON, the body is JSON null, a JSON object without
\* 'result', a JSON object with 'result'
FailureKinds == {"transport_fail", "not_json", "json_null", "no_result"}

ListResponses ==
    [kind : FailureKinds, result : {<<>>}]
    \cup [kind : {"result"}, result : InjSeqsUpTo(Catalogue, MaxListing)]

SummaryResponses ==
    [kind : FailureKinds, result : {<<>>}]
    \cup [kind : {"result"}, result : SeqsUpTo(SummaryDicts, 1)]

\* values of a row's fields when the classifier is applied on its own
FieldChoices ==
    {Some(v) : v \in {0 - 5, 0 - 2, 0 - 1, 0, 3, 5, 10, 50, 100}} \cup {None}

ClassifierRows ==
    [instrument : {"BTC-X"}, expiry : {2}, strike : {60000},
     option_type : {"Call", "Put"}, open_interest : FieldChoices,
     iv_change : FieldChoices, price_change : FieldChoices]

----------------------------------------------------------------------------
(* HTTP and page logs *)

ListEndpoint == "get_instruments"
SummaryEndpoint == "get_book_summary_by_instrument"

Request(endpoint, name) ==
    [endpoint |-> endpoint, instrument |-> name, status |-> "pending",
     result |-> <<>>]

\* the last request of the log gets its response
Answered(log, resp) ==
    [log EXCEPT ![Len(log)].status = resp.kind, ![Len(log)].result = resp.result]

Error(source, name) == [source |-> source, instrument |-> name]

----------------------------------------------------------------------------
(* The dashboard run *)

Init ==
    /\ pc = "start"
    /\ current_time \in NowChoices
    /\ btc_options = <<>>
    /\ weekly_options = <<>>
    /\ idx = 1
    /\ data = <<>>
    /\ options_df = <<>>
    /\ reqs = <<>>
    /\ errors = <<>>
    /\ warnings = <<>>
    /\ rendered = <<>>

\* get_all_btc_options: requests.get(endpoint, params) is issued
ListRequest ==
    /\ pc = "start"
    /\ reqs' = Append(reqs, Request(ListEndpoint, ""))
    /\ pc' = "list_wait"
    /\ UNCHANGED <<current_time, btc_options, weekly_options, idx, data,
                   options_df, errors, warnings, rendered>>

\* get_all_btc_options: requests.get returns or raises, then the try block.
\* requests.get is outside the try, so a transport failure is not caught;
\* 'result' in data raises TypeError on JSON null, which except ValueError
\* does not catch
ListResponse ==
    /\ pc = "list_wait"
    /\ \E resp \in ListResponses :
        /\ reqs' = Answered(reqs, resp)
        /\ \/ /\ resp.kind \in {"transport_fail", "json_null"}
              /\ pc' = "aborted"
              /\ UNCHANGED <<btc_options, errors>>
           \/ /\ resp.kind \in {"not_json", "no_result"}
              /\ errors' = Append(errors, Error("get_all_btc_options", ""))
              /\ btc_options' = <<>>
              /\ pc' = "listed"
           \/ /\ resp.kind = "result"
              /\ btc_options' = resp.result
              /\ pc' = "listed"
              /\ UNCHANGED errors
    /\ UNCHANGED <<current_time, weekly_options, idx, data, options_df,
                   warnings, rendered>>

\* if btc_options: ... else: st.error("Failed to fetch BTC options ...")
ListBranch ==
    /\ pc = "listed"
    /\ IF btc_options # <<>>
       THEN /\ pc' = "filter"
            /\ UNCHANGED errors
       ELSE /\ errors' = Append(errors, Error("main", ""))
            /\ pc' = "error"
    /\ UNCHANGED <<current_time, btc_options, weekly_options, idx, data,
                   options_df, reqs, warnings, rendered>>

\* weekly_options = filter_weekly_expiry_options(btc_options)
FilterStep ==
    /\ pc = "filter"
    /\ weekly_options' = filter_weekly_expiry_options(btc_options, current_time)
    /\ pc' = "filtered"
    /\ UNCHANGED <<current_time, btc_options, idx, data, options_df, reqs,
                   errors, warnings, rendered>>

\* len(weekly_options) >= 0, which an empty list passes too
HasWeeklyOrNone(weekly) == Len(weekly) >= 0

\* len(weekly_options) > 0
HasWeekly(weekly) == Len(weekly) > 0

\* if len(weekly_options) > 0: ... else: st.warning("No weekly ...")
WeeklyBranch ==
    /\ pc = "filtered"
    /\ IF HasWeekly(weekly_options)
       THEN /\ pc' = "df_loop"
            /\ idx' = 1
            /\ data' = <<>>
            /\ UNCHANGED warnings
       ELSE /\ warnings' = Append(warnings, "No weekly expiring options found.")
            /\ pc' = "warning"
            /\ UNCHANGED <<idx, data>>
    /\ UNCHANGED <<current_time, btc_options, weekly_options, options_df,
                   reqs, errors, rendered>>

\* create_options_df(btc_options): the loop over every listed instrument
LoopOptionsAll == btc_options

\* create_options_df(weekly_options): the sequence the loop iterates over
LoopOptions == weekly_options

\* summary['result'][0] if len(summary['result']) > 0 else {}
ResultDict(resp) ==
    IF Len(resp.result) > 0 THEN resp.result[1]
    ELSE [open_interest |-> None, iv |-> None, last |-> None]

\* the dict appended to data; strftime('%Y-%m-%d') keeps the day
Row(option, result) ==
    [instrument    |-> option.instrument_name,
     expiry        |-> utcfromtimestamp(option.expiration_timestamp).day,
     strike        |-> option.strike,
     option_type   |-> IF option.option_type = "call" THEN "Call" ELSE "Put",
     open_interest |-> result.open_interest,
     iv_change     |-> result.iv,
     price_change  |-> result.last]

\* create_options_df, loop body: get_book_summary issues requests.get
SummaryRequest ==
    /\ pc = "df_loop"
    /\ idx <= Len(LoopOptions)
    /\ reqs' = Append(reqs, Request(SummaryEndpoint, LoopOptions[idx].instrument_name))
    /\ pc' = "summary_wait"
    /\ UNCHANGED <<current_time, btc_options, weekly_options, idx, data,
                   options_df, errors, warnings, rendered>>

\* a summary counts only when its 'result' list holds an entry
HasResultEntry(resp) == resp.kind = "result" /\ Len(resp.result) > 0

\* summary and 'result' in summary (None after a decode failure or JSON null)
HasResult(resp) == resp.kind = "result"

\* get_book_summary returns or raises, then the rest of the loop body.
\* requests.get is outside the try: a transport failure is not caught. Only
\* the decode failure calls st.error
SummaryResponse ==
    /\ pc = "summary_wait"
    /\ \E resp \in SummaryResponses :
        /\ reqs' = Answered(reqs, resp)
        /\ IF resp.kind = "transport_fail"
           THEN /\ pc' = "aborted"
                /\ UNCHANGED <<idx, data, errors>>
           ELSE /\ errors' =
                    IF resp.kind = "not_json"
                    THEN Append(errors, Error("get_book_summary",
                                              LoopOptions[idx].instrument_name))
                    ELSE errors
                /\ data' =
                    IF HasResult(resp)
                    THEN Append(data, Row(LoopOptions[idx], ResultDict(resp)))
                    ELSE data
                /\ idx' = idx + 1
                /\ pc' = "df_loop"
    /\ UNCHANGED <<current_time, btc_options, weekly_options, options_df,
                   warnings, rendered>>

\* create_options_df after the loop: pd.DataFrame(data), df.apply, return.
\* With no row the frame has no column: assigning the empty frame that
\* df.apply returns raises ValueError, or, where pandas accepts it, the
\* frame is returned without the columns the charts name
BuildDf ==
    /\ pc = "df_loop"
    /\ idx > Len(LoopOptions)
    /\ IF data = <<>>
       THEN \/ /\ pc' = "aborted"
               /\ UNCHANGED options_df
            \/ /\ options_df' = <<>>
               /\ pc' = "df_built"
       ELSE /\ options_df' = ApplyWriterType(data)
            /\ pc' = "df_built"
    /\ UNCHANGED <<current_time, btc_options, weekly_options, idx, data,
                   reqs, errors, warnings, rendered>>

\* st.dataframe and the three plotly charts; px.bar raises ValueError on a
\* frame without the 'Instrument' column
Render ==
    /\ pc = "df_built"
    /\ IF options_df = <<>>
       THEN /\ rendered' = rendered \o <<"table">>
            /\ pc' = "aborted"
       ELSE /\ rendered' = rendered \o <<"table", "bar_open_interest",
                                         "pie_option_type", "pie_writer_type">>
            /\ pc' = "rendered"
    /\ UNCHANGED <<current_time, btc_options, weekly_options, idx, data,
                   options_df, reqs, errors, warnings>>

Next ==
    \/ ListRequest
    \/ ListResponse
    \/ ListBranch
    \/ FilterStep
    \/ WeeklyBranch
    \/ SummaryRequest
    \/ SummaryResponse
    \/ BuildDf
    \/ Render

Spec == Init /\ [][Next]_vars

----------------------------------------------------------------------------
(* The expiry filter on its own, over every bounded input *)

InitFilter ==
    /\ pc = "call_filter"
    /\ current_time \in NowChoices
    /\ btc_options \in SeqsUpTo(FilterCatalogue, MaxOptions)
    /\ weekly_options = <<>>
    /\ idx = 1
    /\ data = <<>>
    /\ options_df = <<>>
    /\ reqs = <<>>
    /\ errors = <<>>
    /\ warnings = <<>>
    /\ rendered = <<>>

FilterCall ==
    /\ pc = "call_filter"
    /\ weekly_options' = filter_weekly_expiry_options(btc_options, current_time)
    /\ pc' = "filter_returned"
    /\ UNCHANGED <<current_time, btc_options, idx, data, options_df, reqs,
                   errors, warnings, rendered>>

NextFilter == FilterCall

SpecFilter == InitFilter /\ [][NextFilter]_vars

----------------------------------------------------------------------------
(* The row classifier on its own, over every bounded row *)

InitClassify ==
    /\ pc = "call_classify"
    /\ current_time \in NowChoices
    /\ btc_options = <<>>
    /\ weekly_options = <<>>
    /\ idx = 1
    /\ data \in {<<row>> : row \in ClassifierRows}
    /\ options_df = <<>>
    /\ reqs = <<>>
    /\ errors = <<>>
    /\ warnings = <<>>
    /\ rendered = <<>>

ClassifyCall ==
    /\ pc = "call_classify"
    /\ options_df' = ApplyWriterType(data)
    /\ pc' = "classify_returned"
    /\ UNCHANGED <<current_time, btc_options, weekly_options, idx, data,
                   reqs, errors, warnings, rendered>>

NextClassify == ClassifyCall

SpecClassify == InitClassify /\ [][NextClassify]_vars

----------------------------------------------------------------------------
(* Vocabulary of the properties: instants on one linear axis *)

\* whole milliseconds since the epoch of a clock reading
ClockMs(now) == (now.day * SecPerDay + now.sec) * MsPerSec + now.us \div UsPerMs

\* microseconds of the clock reading past its whole millisecond
ClockSubUs(now) == now.us % UsPerMs

\* now <= expiration <= now + 7 days, expiration given in epoch milliseconds
ExpiresWithinWeek(ms, now) ==
    /\ \/ ClockMs(now) < ms
       \/ ClockMs(now) = ms /\ ClockSubUs(now) = 0
    /\ ms <= ClockMs(now) + WeekDays * SecPerDay * MsPerSec

\* the order-preserving subsequence of instruments expiring within the week
WeeklySubsequence(options, now) ==
    LET Keep(o) == ExpiresWithinWeek(o.expiration_timestamp, now)
    IN  SelectSeq(options, Keep)

Terminal == pc \in {"rendered", "warning", "error", "aborted"}

\* the summary requests of the log, in order
SummaryReqs == SelectSeq(reqs, LAMBDA r : r.endpoint = SummaryEndpoint)

Sign(x) == IF x < 0 THEN 0 - 1 ELSE IF x > 0 THEN 1 ELSE 0

\* sign of a field, an absent field counting as zero
FieldSign(x) == IF x = None THEN 0 ELSE Sign(x[1])

\* the rule table of the classifier over (type, price, IV, open interest) signs
RuleLabel(type, p, i, o) ==
    CASE <<type, p, i, o>> = <<"Call", 0 - 1, 0 - 1, 1>> -> "Call Writers (IV Falling)"
      [] <<type, p, i, o>> = <<"Call", 1, 1, 0 - 1>>     -> "Call Buyers (IV Rising)"
      [] <<type, p, i, o>> = <<"Put", 1, 0 - 1, 1>>      -> "Put Writers (IV Falling)"
      [] <<type, p, i, o>> = <<"Put", 0 - 1, 1, 0 - 1>>  -> "Put Buyers (IV Rising)"
      [] OTHER                                           -> "Neutral"

----------------------------------------------------------------------------
(* Properties *)

\* C1: filter_weekly_expiry_options returns exactly the order-preserving
\* subsequence of the instruments with now <= expiration <= now + 7 days,
\* both ends included, and leaves its input as it was.
C1_FilterIsWeeklySubsequence ==
    [][pc = "call_filter" =>
        /\ weekly_options' = WeeklySubsequence(btc_options, current_time)
        /\ btc_options' = btc_options]_vars

\* C1 witness: a three-instrument input with one instrument expiring exactly
\* at now and one exactly at now + 7 days, both kept, and a third one dropped
C1_Witness ==
    /\ pc = "filter_returned"
    /\ Len(btc_options) = 3
    /\ Len(weekly_options) = 2
    /\ ClockSubUs(current_time) = 0
    /\ weekly_options[1].expiration_timestamp = ClockMs(current_time)
    /\ weekly_options[2].expiration_timestamp =
            ClockMs(current_time) + WeekDays * SecPerDay * MsPerSec

\* C2: for every option type and every negative, zero, positive or absent
\* price, IV and open-interest value the classifier returns one of the five
\* labels, the one the rule table gives for the signs of the fields.
C2_ClassifierFollowsRuleTable ==
    pc = "classify_returned" =>
        /\ Len(options_df) = Len(data)
        /\ \A k \in 1..Len(options_df) :
            /\ options_df[k].writer_type \in Labels
            /\ options_df[k].writer_type =
                    RuleLabel(data[k].option_type,
                              FieldSign(data[k].price_change),
                              FieldSign(data[k].iv_change),
                              FieldSign(data[k].open_interest))

\* C2 witness: a Put with falling price, rising IV and negative open interest
\* has been labelled Put Buyers
C2_Witness ==
    /\ pc = "classify_returned"
    /\ data[1].option_type = "Put"
    /\ data[1].price_change = Some(0 - 5)
    /\ options_df[1].writer_type = "Put Buyers (IV Rising)"

\* the summary requests that failed
FailedSummaries == SelectSeq(SummaryReqs, LAMBDA r : r.status \in FailureKinds)

\* C3: every failed summary fetch (transport failure, decode failure, no
\* 'result' field) records an error for its instrument, contributes no row,
\* and the run goes on with the remaining instruments; three filtered
\* instruments with one failed fetch give two rows.
C3_FailedSummaryIsReportedAndSkipped ==
    /\ \A k \in 1..Len(FailedSummaries) :
        /\ \E e \in 1..Len(errors) :
                /\ errors[e].source = "get_book_summary"
                /\ errors[e].instrument = FailedSummaries[k].instrument
        /\ \A j \in 1..Len(data) : data[j].instrument # FailedSummaries[k].instrument
        /\ pc # "aborted"
    /\ (Terminal /\ Len(weekly_options) = 3 /\ Len(FailedSummaries) = 1) =>
        /\ pc = "rendered"
        /\ Len(options_df) = 2

\* C4: no run aborts with an unhandled failure: a run ends with the table and
\* the three charts rendered, with the warning shown or with an error shown.
C4_RunNeverAborts ==
    Terminal => pc \in {"rendered", "warning", "error"}

\* C5: an empty instrument list from the Lister ends the run in the warning
\* state 'No weekly expiring options found.', with no error shown, no summary
\* fetch and no row.
C5_EmptyListingEndsInWarning ==
    (Len(reqs) >= 1 /\ reqs[1].status = "result" /\ reqs[1].result = <<>> /\ Terminal) =>
        /\ pc = "warning"
        /\ warnings = <<"No weekly expiring options found.">>
        /\ errors = <<>>
        /\ SummaryReqs = <<>>
        /\ data = <<>>

\* C6: a failed listing call (transport failure, decode failure, no 'result'
\* field) shows an error, counts as no data and halts the run: nothing is
\* filtered, no summary is fetched, nothing is rendered.
C6_FailedListingShowsErrorAndHalts ==
    (Len(reqs) >= 1 /\ reqs[1].status \in FailureKinds) =>
        /\ errors # <<>>
        /\ btc_options = <<>>
        /\ weekly_options = <<>>
        /\ SummaryReqs = <<>>
        /\ rendered = <<>>
        /\ pc \in {"listed", "error"}

\* C7: when the listing is not empty and no instrument expires within the
\* week, the run shows the warning, renders no table and no chart and issues
\* no summary fetch.
C7_NothingWeeklyEndsInWarning ==
    (btc_options # <<>> /\ WeeklySubsequence(btc_options, current_time) = <<>>) =>
        /\ rendered = <<>>
        /\ SummaryReqs = <<>>
        /\ pc \in {"listed", "filter", "filtered", "warning"}
        /\ Terminal => /\ pc = "warning"
                       /\ warnings = <<"No weekly expiring options found.">>

\* C7 witness: a listed instrument, none within the week, the warning shown
C7_Witness ==
    /\ pc = "warning"
    /\ Len(btc_options) >= 1
    /\ weekly_options = <<>>

\* C8: the listing request is the first request and has completed before any
\* summary request; summary requests go to the filtered instruments only, in
\* filter order, one at a time, each instrument at most once and, once the
\* dataframe is built, exactly once.
C8_RequestsAreSequential ==
    /\ \A k \in 1..Len(reqs) :
        /\ reqs[k].endpoint = (IF k = 1 THEN ListEndpoint ELSE SummaryEndpoint)
        /\ reqs[k].status = "pending" => k = Len(reqs)
    /\ Len(reqs) >= 2 => reqs[1].status = "result"
    /\ Len(SummaryReqs) <= Len(weekly_options)
    /\ \A k \in 1..Len(SummaryReqs) :
            SummaryReqs[k].instrument = weekly_options[k].instrument_name
    /\ pc \in {"df_built", "rendered"} => Len(SummaryReqs) = Len(weekly_options)

\* C8 witness: a rendered run over a listing of three instruments of which
\* two passed the filter, with its three requests all answered
C8_Witness ==
    /\ pc = "rendered"
    /\ Len(btc_options) = 3
    /\ Len(weekly_options) = 2
    /\ Len(reqs) = 3
    /\ reqs[3].status = "result"

\* C9: when every fetched open interest is non-negative or absent, no row
\* carries a Buyers label; a Call with price change 5, IV change 3 and open
\* interest 100 is Neutral.
C9_NoBuyersWithoutNegativeOpenInterest ==
    (\A k \in 1..Len(options_df) :
        options_df[k].open_interest = None \/ options_df[k].open_interest[1] >= 0) =>
    \A k \in 1..Len(options_df) :
        /\ options_df[k].writer_type \in
                {"Call Writers (IV Falling)", "Put Writers (IV Falling)", "Neutral"}
        /\ (/\ options_df[k].option_type = "Call"
            /\ options_df[k].price_change = Some(5)
            /\ options_df[k].iv_change = Some(3)
            /\ options_df[k].open_interest = Some(100))
           => options_df[k].writer_type = "Neutral"

\* C9 witness: a rendered table whose open interests are all non-negative or
\* absent and that holds a Neutral Call with price 5, IV 3, open interest 100
C9_Witness ==
    /\ pc = "rendered"
    /\ \A k \in 1..Len(options_df) :
        options_df[k].open_interest = None \/ options_df[k].open_interest[1] >= 0
    /\ \E k \in 1..Len(options_df) :
        /\ options_df[k].option_type = "Call"
        /\ options_df[k].price_change = Some(5)
        /\ options_df[k].iv_change = Some(3)
        /\ options_df[k].open_interest = Some(100)
        /\ options_df[k].writer_type = "Neutral"

\* positions of the filtered instruments whose summary carried 'result'
WithResult ==
    SelectSeq([k \in 1..Len(SummaryReqs) |-> k],
              LAMBDA k : SummaryReqs[k].status = "result")

\* the field of the first entry of a 'result' list, absent in an empty list
FetchedField(req, Field(_)) ==
    IF req.result = <<>> THEN None ELSE Field(req.result[1])

\* C10: the dataframe create_options_df returns holds, in filter order, one
\* row for each filtered instrument whose summary carried 'result' and no
\* other row, no instrument twice; the row joins the instrument with the
\* fetched fields, and a row from an empty 'result' list has absent open
\* interest, IV and price and the label Neutral.
C10_OneRowPerFetchedInstrument ==
    pc \in {"df_built", "rendered"} /\ options_df # <<>> =>
        /\ Len(options_df) = Len(WithResult)
        /\ \A j \in 1..Len(options_df) :
            LET k == WithResult[j]
                row == options_df[j]
            IN  /\ row.instrument = weekly_options[k].instrument_name
                /\ row.strike = weekly_options[k].strike
                /\ row.option_type =
                       (IF weekly_options[k].option_type = "call" THEN "Call" ELSE "Put")
                /\ row.open_interest =
                       FetchedField(SummaryReqs[k], LAMBDA d : d.open_interest)
                /\ row.iv_change = FetchedField(SummaryReqs[k], LAMBDA d : d.iv)
                /\ row.price_change = FetchedField(SummaryReqs[k], LAMBDA d : d.last)
                /\ row.writer_type \in Labels
                /\ SummaryReqs[k].result = <<>> => row.writer_type = "Neutral"
        /\ \A i, j \in 1..Len(options_df) :
            i # j => options_df[i].instrument # options_df[j].instrument

\* C10 witness: three filtered instruments, the second without 'result', the
\* third with an empty 'result' list, rendered as two rows
C10_Witness ==
    /\ pc = "rendered"
    /\ Len(weekly_options) = 3
    /\ SummaryReqs[2].status = "no_result"
    /\ SummaryReqs[3].status = "result"
    /\ SummaryReqs[3].result = <<>>
    /\ Len(options_df) = 2
    /\ options_df[2].open_interest = None
    /\ options_df[2].writer_type = "Neutral"

====
